---- MODULE Spec2Model ----
(***************************************************************************)
(* Model of eddndev/pixel (src/src/main.rs): the `pixelate` / `map`        *)
(* command (process_image) and the `reconstruct` command                   *)
(* (reconstruct_image), with the JSON document that links the two.         *)
(*                                                                         *)
(* Conventions.  An RGBA sample is the tuple <<r, g, b, a>> of u8 values.  *)
(* A string is the tuple of its (ASCII) characters, so "#ff" is            *)
(* <<"#", "f", "f">>.  Image coordinates are 0-based as in the source; an  *)
(* image is a function from <<x, y>> to a sample.                          *)
(***************************************************************************)
EXTENDS Integers, Sequences, FiniteSets, TLC

(***************************************************************************)
(* Bounds of the model.                                                    *)
(***************************************************************************)
MaxPixels == 4      \* an input image has at most this many pixels
MaxBlock == 2       \* block sizes 1..MaxBlock
MaxRows == 2        \* rows of a hand-written JSON matrix
MaxRowLen == 2      \* cells in a row of a hand-written JSON matrix

(***************************************************************************)
(* The pixel values input images are drawn from.                           *)
(***************************************************************************)
Red == <<255, 0, 0, 255>>
Green == <<0, 255, 0, 255>>
Olive == <<128, 128, 0, 200>>
Faint == <<128, 128, 0, 1>>       \* alpha 1: averages to alpha 0 with Ghost
Ghost == <<9, 9, 9, 0>>           \* alpha 0 with non-zero RGB
Pixels == {Red, Green, Olive, Faint, Ghost}

\* --tolerance values (f64 in the source; whole numbers here)
Tolerances == {0, 189, 200}
BlockSizes == 1..MaxBlock

Min(a, b) == IF a < b THEN a ELSE b
CeilDiv(a, b) == (a + b - 1) \div b

Coords(w, h) == (0..(w - 1)) \X (0..(h - 1))

(***************************************************************************)
(* Color codec                                                             *)
(***************************************************************************)
HexDigits == <<"0", "1", "2", "3", "4", "5", "6", "7",
               "8", "9", "a", "b", "c", "d", "e", "f">>

\* {:02x} of a u8
ToHex2(v) == <<HexDigits[(v \div 16) + 1], HexDigits[(v % 16) + 1]>>

\* format!("#{:02x}{:02x}{:02x}{:02x}", r, g, b, a)
HexColor(c) == <<"#">> \o ToHex2(c[1]) \o ToHex2(c[2]) \o ToHex2(c[3]) \o ToHex2(c[4])

transparent_hex == <<"#", "0", "0", "0", "0", "0", "0", "0", "0">>

\* char::to_digit(16): value of one hex digit, -1 when it is none
DigitValue(ch) ==
    IF \E i \in 1..16 : HexDigits[i] = ch
    THEN (CHOOSE i \in 1..16 : HexDigits[i] = ch) - 1
    ELSE IF ch = "A" THEN 10 ELSE IF ch = "B" THEN 11 ELSE IF ch = "C" THEN 12
    ELSE IF ch = "D" THEN 13 ELSE IF ch = "E" THEN 14 ELSE IF ch = "F" THEN 15
    ELSE -1

\* u8::from_str_radix(s, 16) of a two-character slice: -1 stands for Err.
\* A leading "+" is accepted and must be followed by a digit.
FromStrRadix16(s) ==
    IF s[1] = "+"
    THEN DigitValue(s[2])
    ELSE IF DigitValue(s[1]) < 0 \/ DigitValue(s[2]) < 0
         THEN -1
         ELSE 16 * DigitValue(s[1]) + DigitValue(s[2])

HexErr == <<-1, -1, -1, -1>>

\* hex_to_rgba: HexErr stands for Err(_)
hex_to_rgba_Swapped(hex) ==
    IF Len(hex) # 9 \/ hex[1] # "#"
    THEN HexErr
    ELSE LET r == FromStrRadix16(SubSeq(hex, 2, 3))
             g == FromStrRadix16(SubSeq(hex, 4, 5))
             b == FromStrRadix16(SubSeq(hex, 6, 7))
             a == FromStrRadix16(SubSeq(hex, 8, 9))
         IN IF r < 0 \/ g < 0 \/ b < 0 \/ a < 0 THEN HexErr ELSE <<g, r, b, a>>
hex_to_rgba(hex) ==
    IF Len(hex) # 9 \/ hex[1] # "#"
    THEN HexErr
    ELSE LET r == FromStrRadix16(SubSeq(hex, 2, 3))
             g == FromStrRadix16(SubSeq(hex, 4, 5))
             b == FromStrRadix16(SubSeq(hex, 6, 7))
             a == FromStrRadix16(SubSeq(hex, 8, 9))
         IN IF r < 0 \/ g < 0 \/ b < 0 \/ a < 0 THEN HexErr ELSE <<r, g, b, a>>

\* color_distance(c1, c2) <= tolerance.  The source compares the f64 square
\* root of the sum of squares with the tolerance; for a whole tolerance that
\* is the comparison of the sum of squares with the tolerance squared.
SqDist(c1, c2) ==
    (c1[1] - c2[1]) * (c1[1] - c2[1]) + (c1[2] - c2[2]) * (c1[2] - c2[2])
    + (c1[3] - c2[3]) * (c1[3] - c2[3]) + (c1[4] - c2[4]) * (c1[4] - c2[4])
color_distance_within(c1, c2, tol) == SqDist(c1, c2) <= tol * tol

(***************************************************************************)
(* Block reducer                                                           *)
(***************************************************************************)
x_end_Short(x, bs, w) == Min(x + bs - 1, w)
x_end(x, bs, w) == Min(x + bs, w)
y_end(y, bs, h) == Min(y + bs, h)

\* the pixels get_pixel is called on for the block with top-left (x, y)
BlockPixels(x, y, bs, w, h) ==
    IF bs > 1
    THEN (x..(x_end(x, bs, w) - 1)) \X (y..(y_end(y, bs, h) - 1))
    ELSE {<<x, y>>}

RECURSIVE ChannelSum(_, _, _)
ChannelSum(im, S, ch) ==
    IF S = {} THEN 0
    ELSE LET p == CHOOSE q \in S : TRUE
         IN im[p][ch] + ChannelSum(im, S \ {p}, ch)

\* the (r, g, b, a) of lines 96-149: truncating averages for a block size
\* above 1, the pixel itself for block size 1; alpha 0 forces (0, 0, 0, 0)
Sample_Raw(im, x, y, bs, w, h) ==
    IF bs > 1
    THEN LET S == BlockPixels(x, y, bs, w, h)
             count == Cardinality(S)
         IN <<(ChannelSum(im, S, 1) \div count) % 256,
              (ChannelSum(im, S, 2) \div count) % 256,
              (ChannelSum(im, S, 3) \div count) % 256,
              (ChannelSum(im, S, 4) \div count) % 256>>
    ELSE im[<<x, y>>]
Sample(im, x, y, bs, w, h) ==
    IF bs > 1
    THEN LET S == BlockPixels(x, y, bs, w, h)
             count == Cardinality(S)
             avg_a == (ChannelSum(im, S, 4) \div count) % 256
         IN IF avg_a = 0
            THEN <<0, 0, 0, 0>>
            ELSE <<(ChannelSum(im, S, 1) \div count) % 256,
                   (ChannelSum(im, S, 2) \div count) % 256,
                   (ChannelSum(im, S, 3) \div count) % 256,
                   avg_a>>
    ELSE LET rgba == im[<<x, y>>]
         IN IF rgba[4] = 0 THEN <<0, 0, 0, 0>> ELSE rgba

(***************************************************************************)
(* Color table                                                             *)
(***************************************************************************)
Put(f, k, v) == [j \in DOMAIN f \cup {k} |-> IF j = k THEN v ELSE f[j]]

\* the tables right after lines 80-91
InitTable_FromZero ==
    [color_to_id |-> Put(<<>>, transparent_hex, 0),
     id_to_color |-> Put(<<>>, 0, transparent_hex),
     palette |-> <<>>,
     next_id |-> 0]
InitTable ==
    [color_to_id |-> Put(<<>>, transparent_hex, 0),
     id_to_color |-> Put(<<>>, 0, transparent_hex),
     palette |-> <<>>,
     next_id |-> 1]

\* index of the first palette entry within the tolerance, 0 when there is none
FirstMatch(palette, rgba, tol) ==
    LET hits == {i \in 1..Len(palette) : color_distance_within(rgba, palette[i][2], tol)}
    IN IF hits = {} THEN 0 ELSE CHOOSE i \in hits : \A j \in hits : i <= j

\* lines 151-184: the identifier of a sample and the tables after resolving it
Resolve_NoColorEntry(t, rgba, tol) ==
    LET hex_color == HexColor(rgba)
        found == IF tol > 0 /\ rgba[4] > 0 THEN FirstMatch(t.palette, rgba, tol) ELSE 0
    IN IF hex_color \in DOMAIN t.color_to_id
       THEN [id |-> t.color_to_id[hex_color], table |-> t]
       ELSE IF found # 0
            THEN [id |-> t.palette[found][1],
                  table |-> [t EXCEPT !.color_to_id = Put(@, hex_color, t.palette[found][1])]]
            ELSE [id |-> t.next_id,
                  table |-> [color_to_id |-> Put(t.color_to_id, hex_color, t.next_id),
                             id_to_color |-> t.id_to_color,
                             palette |-> IF t.next_id # 0
                                         THEN Append(t.palette, <<t.next_id, rgba>>)
                                         ELSE t.palette,
                             next_id |-> t.next_id + 1]]
Resolve_NoIncrement(t, rgba, tol) ==
    LET hex_color == HexColor(rgba)
        found == IF tol > 0 /\ rgba[4] > 0 THEN FirstMatch(t.palette, rgba, tol) ELSE 0
    IN IF hex_color \in DOMAIN t.color_to_id
       THEN [id |-> t.color_to_id[hex_color], table |-> t]
       ELSE IF found # 0
            THEN [id |-> t.palette[found][1],
                  table |-> [t EXCEPT !.color_to_id = Put(@, hex_color, t.palette[found][1])]]
            ELSE [id |-> t.next_id,
                  table |-> [color_to_id |-> Put(t.color_to_id, hex_color, t.next_id),
                             id_to_color |-> Put(t.id_to_color, t.next_id, hex_color),
                             palette |-> IF t.next_id # 0
                                         THEN Append(t.palette, <<t.next_id, rgba>>)
                                         ELSE t.palette,
                             next_id |-> t.next_id]]
Resolve_FuzzyFirst(t, rgba, tol) ==
    LET hex_color == HexColor(rgba)
        found == IF tol > 0 /\ rgba[4] > 0 THEN FirstMatch(t.palette, rgba, tol) ELSE 0
    IN IF tol = 0 /\ hex_color \in DOMAIN t.color_to_id
       THEN [id |-> t.color_to_id[hex_color], table |-> t]
       ELSE IF found # 0
            THEN [id |-> t.palette[found][1],
                  table |-> [t EXCEPT !.color_to_id = Put(@, hex_color, t.palette[found][1])]]
            ELSE [id |-> t.next_id,
                  table |-> [color_to_id |-> Put(t.color_to_id, hex_color, t.next_id),
                             id_to_color |-> Put(t.id_to_color, t.next_id, hex_color),
                             palette |-> IF t.next_id # 0
                                         THEN Append(t.palette, <<t.next_id, rgba>>)
                                         ELSE t.palette,
                             next_id |-> t.next_id + 1]]
Resolve(t, rgba, tol) ==
    LET hex_color == HexColor(rgba)
        found == IF tol > 0 /\ rgba[4] > 0 THEN FirstMatch(t.palette, rgba, tol) ELSE 0
    IN IF hex_color \in DOMAIN t.color_to_id
       THEN [id |-> t.color_to_id[hex_color], table |-> t]
       ELSE IF found # 0
            THEN [id |-> t.palette[found][1],
                  table |-> [t EXCEPT !.color_to_id = Put(@, hex_color, t.palette[found][1])]]
            ELSE [id |-> t.next_id,
                  table |-> [color_to_id |-> Put(t.color_to_id, hex_color, t.next_id),
                             id_to_color |-> Put(t.id_to_color, t.next_id, hex_color),
                             palette |-> IF t.next_id # 0
                                         THEN Append(t.palette, <<t.next_id, rgba>>)
                                         ELSE t.palette,
                             next_id |-> t.next_id + 1]]

(***************************************************************************)
(* Grid builder: one iteration of the inner loop of process_image          *)
(***************************************************************************)
\* the scan right after lines 80-91, before the first block
InitScan ==
    [x |-> 0, y |-> 0, row |-> <<>>, matrix |-> <<>>, reads |-> <<>>, table |-> InitTable]

\* lines 95-188 for the block with top-left (s.x, s.y): the sample is resolved
\* and pushed on the row; after the last block of a row the row is pushed on
\* the matrix and the scan moves to the next row of blocks.  s.reads records
\* the pixels get_pixel was called on, cell by cell.
ScanStep(s, im, w, h, bs, tol) ==
    LET rgba == Sample(im, s.x, s.y, bs, w, h)
        res == Resolve(s.table, rgba, tol)
        row2 == Append(s.row, res.id)
        rd == IF s.x = 0 THEN Append(s.reads, <<BlockPixels(s.x, s.y, bs, w, h)>>)
              ELSE [s.reads EXCEPT ![Len(s.reads)] =
                        Append(@, BlockPixels(s.x, s.y, bs, w, h))]
    IN IF s.x + bs < w
       THEN [x |-> s.x + bs, y |-> s.y, row |-> row2, matrix |-> s.matrix,
             reads |-> rd, table |-> res.table]
       ELSE [x |-> 0, y |-> s.y + bs, row |-> <<>>, matrix |-> Append(s.matrix, row2),
             reads |-> rd, table |-> res.table]

\* the whole scan of lines 93-189 as a function of its inputs
RECURSIVE RunScan(_, _, _, _, _, _)
RunScan(s, im, w, h, bs, tol) ==
    IF s.y < h THEN RunScan(ScanStep(s, im, w, h, bs, tol), im, w, h, bs, tol) ELSE s
ProcessImage(im, w, h, bs, tol) == RunScan(InitScan, im, w, h, bs, tol)

(***************************************************************************)
(* Serializer / deserializer                                               *)
(***************************************************************************)
DecDigits == <<"0", "1", "2", "3", "4", "5", "6", "7", "8", "9">>

\* u32 to_string, as serde_json writes an integer map key
RECURSIVE ToDec(_)
ToDec(n) == IF n < 10 THEN <<DecDigits[n + 1]>>
            ELSE Append(ToDec(n \div 10), DecDigits[(n % 10) + 1])

IsDecDigit(ch) == \E i \in 1..10 : DecDigits[i] = ch

RECURSIVE DecValue(_)
DecValue(s) ==
    IF s = <<>> THEN 0
    ELSE 10 * DecValue(SubSeq(s, 1, Len(s) - 1))
         + (CHOOSE i \in 1..10 : DecDigits[i] = s[Len(s)]) - 1

\* serde_json reading a u32 map key: a JSON number without sign or leading
\* zero; -1 stands for the error.  (The keys of the model have at most two
\* digits, so the 32-bit range check never decides.)
ParseKey(s) ==
    IF s = <<>> \/ (\E i \in 1..Len(s) : ~IsDecDigit(s[i])) \/ (Len(s) > 1 /\ s[1] = "0")
    THEN -1
    ELSE DecValue(s)

\* lines 191-211: the document written for a matrix and a colors table.  A
\* document is the function from its member names to their values.
ToJson(m, colors) ==
    [matrix |-> m,
     colors |-> [k \in {ToDec(i) : i \in DOMAIN colors} |->
                    colors[CHOOSE i \in DOMAIN colors : ToDec(i) = k]]]

NoData == [matrix |-> <<>>, colors |-> <<>>]
ParseErr == [ok |-> FALSE, matrix |-> <<>>, colors |-> <<>>]

\* serde_json::from_str::<Output>: both members are required, every cell is a
\* u32 (a negative cell is the malformed one here) and every key of colors
\* reads as a u32
FromJson(doc) ==
    IF "matrix" \notin DOMAIN doc \/ "colors" \notin DOMAIN doc
    THEN ParseErr
    ELSE IF \E j \in 1..Len(doc.matrix) : \E i \in 1..Len(doc.matrix[j]) :
                doc.matrix[j][i] < 0
         THEN ParseErr
         ELSE IF \E k \in DOMAIN doc.colors : ParseKey(k) < 0
              THEN ParseErr
              ELSE [ok |-> TRUE,
                    matrix |-> doc.matrix,
                    colors |-> [i \in {ParseKey(k) : k \in DOMAIN doc.colors} |->
                                   doc.colors[CHOOSE k \in DOMAIN doc.colors : ParseKey(k) = i]]]

(***************************************************************************)
(* Reconstructor helpers                                                   *)
(***************************************************************************)
\* ImageBuffer::new(width, height): every pixel zero
NewImage(w, h) == [c \in Coords(w, h) |-> <<0, 0, 0, 0>>]

\* ImageBuffer::put_pixel (image crate): panics when (x, y) is outside the
\* buffer; ok = FALSE stands for the panic
put_pixel(im, w, h, px, py, c) ==
    IF px < w /\ py < h
    THEN [ok |-> TRUE, img |-> [im EXCEPT ![<<px, py>>] = c]]
    ELSE [ok |-> FALSE, img |-> im]

\* the enumerate() loops of lines 250-251: the first row at or after j that
\* has a cell, Len(m) + 1 when there is none
RECURSIVE SkipEmpty(_, _)
SkipEmpty(m, j) ==
    IF j > Len(m) THEN j ELSE IF Len(m[j]) > 0 THEN j ELSE SkipEmpty(m, j + 1)
FirstCell(m) == <<SkipEmpty(m, 1), 1>>
CellAfter(m, j, i) == IF i < Len(m[j]) THEN <<j, i + 1>> ELSE <<SkipEmpty(m, j + 1), 1>>

Absent == [state |-> "absent", width |-> 0, height |-> 0, pixels |-> <<>>]
Partial == [state |-> "partial", width |-> 0, height |-> 0, pixels |-> <<>>]
Saved(im, w, h) == [state |-> "saved", width |-> w, height |-> h, pixels |-> im]

(***************************************************************************)
(* Documents handed to `reconstruct` that no run of `pixelate` wrote       *)
(***************************************************************************)
IdsIn == {0, 1}
RowsIn == UNION {[1..n -> IdsIn] : n \in 0..MaxRowLen}
MatricesIn == UNION {[1..n -> RowsIn] : n \in 0..MaxRows}
Key0 == <<"0">>
Key1 == <<"1">>
ShortHex == <<"#", "f", "f", "0", "0", "0", "0">>
BadDigitHex == <<"#", "g", "g", "0", "0", "0", "0", "f", "f">>
PlusHex == <<"#", "+", "f", "0", "0", "0", "0", "f", "f">>
HexIn(k) == IF k = Key0 THEN {HexColor(Red), ShortHex, BadDigitHex, PlusHex}
            ELSE {HexColor(Green), BadDigitHex}
ColorsIn ==
    UNION {{c \in [S -> {HexColor(Red), HexColor(Green), ShortHex, BadDigitHex, PlusHex}] :
               \A k \in S : c[k] \in HexIn(k)} : S \in SUBSET {Key0, Key1}}
WellTyped == {[matrix |-> m, colors |-> c] : m \in MatricesIn, c \in ColorsIn}
OneCell == <<<<0>>>>
RedTable == [k \in {Key0} |-> HexColor(Red)]
NoColors == {[matrix |-> OneCell]}
NoMatrix == {[colors |-> RedTable]}
BadCell == {[matrix |-> <<<<0, -1>>>>, colors |-> RedTable]}
BadKey == {[matrix |-> OneCell, colors |-> [k \in {<<"x">>, <<"0", "1">>} |-> HexColor(Red)]]}

(***************************************************************************)
(* State                                                                   *)
(***************************************************************************)
VARIABLES
    cmd,          \* the subcommand the behaviour starts with
    pc,           \* where the program is
    img,          \* process_image: the decoded input image
    width, height,
    block_size, tolerance,
    x, y,         \* top-left of the next block
    row, matrix,
    reads,        \* per cell, the pixels get_pixel was called on
    color_to_id, id_to_color, palette, next_id,
    json,         \* the document on disk (empty before one is written)
    data,         \* reconstruct_image: the deserialized Output
    out_width, out_height,
    out_img,      \* the ImageBuffer
    cy, cx,       \* 1-based position of the next cell of data.matrix
    warnings,     \* identifiers warned about on stderr
    out_file,     \* the image file at the output path
    result        \* how reconstruct_image ended

scanVars == <<img, width, height, block_size, tolerance, x, y, row, matrix, reads,
              color_to_id, id_to_color, palette, next_id>>
recVars == <<data, out_width, out_height, out_img, cy, cx, warnings, out_file, result>>
vars == <<cmd, pc, scanVars, json, recVars>>

\* the scan as the record ScanStep works on
Scan ==
    [x |-> x, y |-> y, row |-> row, matrix |-> matrix, reads |-> reads,
     table |-> [color_to_id |-> color_to_id, id_to_color |-> id_to_color,
                palette |-> palette, next_id |-> next_id]]

RecInit ==
    /\ data = NoData
    /\ out_width = 0
    /\ out_height = 0
    /\ out_img = <<>>
    /\ cy = 1
    /\ cx = 1
    /\ warnings = <<>>
    /\ out_file = Absent
    /\ result = "running"

ScanInit(im, w, h, bs, tol) ==
    /\ img = im
    /\ width = w
    /\ height = h
    /\ block_size = bs
    /\ tolerance = tol
    /\ x = InitScan.x
    /\ y = InitScan.y
    /\ row = InitScan.row
    /\ matrix = InitScan.matrix
    /\ reads = InitScan.reads
    /\ color_to_id = InitScan.table.color_to_id
    /\ id_to_color = InitScan.table.id_to_color
    /\ palette = InitScan.table.palette
    /\ next_id = InitScan.table.next_id

\* `pixelate` / `map` on an image (main, lines 270-277: block size 0 is
\* rejected before process_image), up to line 91.  A decoded image has at
\* least one pixel.
InitPixelate ==
    /\ cmd = "pixelate"
    /\ pc = "scan"
    /\ \E w \in 1..MaxPixels, h \in 1..MaxPixels :
          /\ w * h <= MaxPixels
          /\ \E im \in [Coords(w, h) -> Pixels], bs \in BlockSizes, tol \in Tolerances :
                ScanInit(im, w, h, bs, tol)
    /\ json = <<>>
    /\ RecInit

\* `reconstruct` on a document someone else wrote
InitReconstruct ==
    /\ cmd = "reconstruct"
    /\ pc = "written"
    /\ ScanInit(<<>>, 0, 0, 1, 0)
    /\ \/ json \in WellTyped
       \/ json \in NoColors
       \/ json \in NoMatrix
       \/ json \in BadCell
       \/ json \in BadKey
    /\ RecInit

Init == InitPixelate \/ InitReconstruct

(***************************************************************************)
(* process_image                                                           *)
(***************************************************************************)
\* one iteration of the loop of line 95 (and line 188 after the last one)
ProcessBlock ==
    /\ pc = "scan"
    /\ LET s == ScanStep(Scan, img, width, height, block_size, tolerance)
       IN /\ x' = s.x
          /\ y' = s.y
          /\ row' = s.row
          /\ matrix' = s.matrix
          /\ reads' = s.reads
          /\ color_to_id' = s.table.color_to_id
          /\ id_to_color' = s.table.id_to_color
          /\ palette' = s.table.palette
          /\ next_id' = s.table.next_id
          /\ pc' = IF s.y < height THEN "scan" ELSE "scanned"
    /\ UNCHANGED <<cmd, img, width, height, block_size, tolerance, json, recVars>>

\* lines 191-220
WriteOutput ==
    /\ pc = "scanned"
    /\ json' = ToJson(matrix, id_to_color)
    /\ pc' = "written"
    /\ UNCHANGED <<cmd, scanVars, recVars>>

(***************************************************************************)
(* reconstruct_image                                                       *)
(***************************************************************************)
\* lines 235-248
ReconstructOpen ==
    /\ pc = "written"
    /\ \E readable \in BOOLEAN :
          LET d == FromJson(json)
          IN IF ~readable
             THEN /\ result' = "open_error"
                  /\ pc' = "failed"
                  /\ UNCHANGED <<data, out_width, out_height, out_img, cy, cx>>
             ELSE IF ~d.ok
             THEN /\ result' = "parse_error"
                  /\ pc' = "failed"
                  /\ UNCHANGED <<data, out_width, out_height, out_img, cy, cx>>
             ELSE IF d.matrix = <<>>
             THEN /\ result' = "empty_matrix"
                  /\ pc' = "failed"
                  /\ data' = [matrix |-> d.matrix, colors |-> d.colors]
                  /\ UNCHANGED <<out_width, out_height, out_img, cy, cx>>
             ELSE /\ data' = [matrix |-> d.matrix, colors |-> d.colors]
                  /\ out_height' = Len(d.matrix)
                  /\ out_width' = Len(d.matrix[1])
                  /\ out_img' = NewImage(Len(d.matrix[1]), Len(d.matrix))
                  /\ cy' = FirstCell(d.matrix)[1]
                  /\ cx' = FirstCell(d.matrix)[2]
                  /\ pc' = IF FirstCell(d.matrix)[1] > Len(d.matrix) THEN "save" ELSE "cells"
                  /\ UNCHANGED result
    /\ UNCHANGED <<cmd, scanVars, json, warnings, out_file>>

\* lines 251-258 for the cell (cy, cx); file_after is the output file once
\* the cell is written
CellStep(file_after) ==
    /\ pc = "cells"
    /\ LET id == data.matrix[cy][cx]
           known == id \in DOMAIN data.colors
           rgba == IF known THEN hex_to_rgba(data.colors[id]) ELSE <<0, 0, 0, 0>>
           put == put_pixel(out_img, out_width, out_height, cx - 1, cy - 1, rgba)
           nxt == CellAfter(data.matrix, cy, cx)
       IN IF known /\ rgba = HexErr
          THEN /\ result' = "hex_error"
               /\ pc' = "failed"
               /\ UNCHANGED <<out_img, cy, cx, warnings, out_file>>
          ELSE /\ warnings' = IF known THEN warnings ELSE Append(warnings, id)
               /\ IF put.ok
                  THEN /\ out_img' = put.img
                       /\ cy' = nxt[1]
                       /\ cx' = nxt[2]
                       /\ pc' = IF nxt[1] > Len(data.matrix) THEN "save" ELSE "cells"
                       /\ out_file' = file_after
                       /\ UNCHANGED result
                  ELSE /\ result' = "bounds_panic"
                       /\ pc' = "failed"
                       /\ UNCHANGED <<out_img, cy, cx, out_file>>
    /\ UNCHANGED <<cmd, scanVars, json, data, out_width, out_height>>

ReconstructCell_EagerSave == CellStep(Saved(out_img', out_width, out_height))
ReconstructCell == CellStep(out_file)

\* lines 262-263: img.save either writes the file or fails, and a failed
\* save may leave a file behind
ReconstructSave ==
    /\ pc = "save"
    /\ \/ /\ out_file' = Saved(out_img, out_width, out_height)
          /\ result' = "ok"
          /\ pc' = "done"
       \/ /\ out_file' \in {Absent, Partial}
          /\ result' = "save_error"
          /\ pc' = "failed"
    /\ UNCHANGED <<cmd, scanVars, json, data, out_width, out_height, out_img, cy, cx, warnings>>

Next == ProcessBlock \/ WriteOutput \/ ReconstructOpen \/ ReconstructCell \/ ReconstructSave

Spec == Init /\ [][Next]_vars

(***************************************************************************)
(* Vocabulary of the properties                                            *)
(***************************************************************************)
\* the rows pushed so far, the unfinished one included
AllRows == IF row = <<>> THEN matrix ELSE Append(matrix, row)

RECURSIVE Flatten(_)
Flatten(m) == IF m = <<>> THEN <<>> ELSE m[1] \o Flatten(Tail(m))

CellIds(m) == {Flatten(m)[n] : n \in 1..Len(Flatten(m))}
NumIds(m) == Cardinality(CellIds(m))

\* the clamped block of cell (i, j) (1-based column i, row j), from the
\* image's size alone
ClampedBlock(i, j) ==
    {c \in Coords(width, height) :
        /\ (i - 1) * block_size <= c[1]
        /\ c[1] < Min((i - 1) * block_size + block_size, width)
        /\ (j - 1) * block_size <= c[2]
        /\ c[2] < Min((j - 1) * block_size + block_size, height)}

\* the alpha of the resolved sample of cell (i, j): the pixel's alpha for
\* block size 1, the truncated average over the clamped block otherwise
CellAlpha(i, j) ==
    IF block_size = 1
    THEN img[<<i - 1, j - 1>>][4]
    ELSE ChannelSum(img, ClampedBlock(i, j), 4) \div Cardinality(ClampedBlock(i, j))

Scanning == cmd = "pixelate"
ScanOver == cmd = "pixelate" /\ pc # "scan"

\* a hex string other than the canonical one of its identifier is recorded:
\* a fuzzy hit has happened
FuzzyHit == Cardinality(DOMAIN color_to_id) > Cardinality(DOMAIN id_to_color)

(***************************************************************************)
(* C1                                                                      *)
(***************************************************************************)
\* C1: at every point of the scan, every identifier pushed on the matrix (or
\* on the row being built) is a key of id_to_color.
C1_GridIdsInTable ==
    Scanning => \A id \in CellIds(AllRows) : id \in DOMAIN id_to_color

\* a scan with a positive tolerance in which a fuzzy hit and a new colour
\* both happened
C1_Witness ==
    /\ Scanning /\ pc = "scan" /\ tolerance > 0
    /\ FuzzyHit /\ next_id > 2

(***************************************************************************)
(* C2                                                                      *)
(***************************************************************************)
RoundTripDone == cmd = "pixelate" /\ block_size = 1 /\ tolerance = 0 /\ result = "ok"

\* C2 as claimed: map (block size 1, tolerance 0) then reconstruct gives an
\* image of the same size with exactly the original (r, g, b, a) everywhere.
C2_RoundTripExact ==
    RoundTripDone =>
        /\ out_file.width = width
        /\ out_file.height = height
        /\ \A c \in Coords(width, height) : out_file.pixels[c] = img[c]

\* C2 amended: the size is kept, every pixel with alpha > 0 comes back
\* exactly, and every pixel with alpha 0 comes back as (0, 0, 0, 0).
C2_RoundTripCanonical ==
    RoundTripDone =>
        /\ out_file.state = "saved"
        /\ out_file.width = width
        /\ out_file.height = height
        /\ DOMAIN out_file.pixels = Coords(width, height)
        /\ \A c \in Coords(width, height) :
              out_file.pixels[c] = IF img[c][4] = 0 THEN <<0, 0, 0, 0>> ELSE img[c]

C2_Witness ==
    /\ RoundTripDone
    /\ width > 1 /\ height > 1
    /\ \E c, d \in Coords(width, height) : img[c] = Ghost /\ img[d] = Olive

(***************************************************************************)
(* C3                                                                      *)
(***************************************************************************)
C3_State ==
    Scanning =>
        /\ \A j \in 1..Len(AllRows) : \A i \in 1..Len(AllRows[j]) :
              (AllRows[j][i] = 0) <=> (CellAlpha(i, j) = 0)
        /\ id_to_color[0] = transparent_hex

C3_Step ==
    (pc = "scan" /\ CellAlpha((x \div block_size) + 1, (y \div block_size) + 1) = 0) =>
        /\ palette' = palette
        /\ next_id' = next_id
        /\ id_to_color' = id_to_color

\* C3: a cell gets identifier 0 exactly when the alpha of its resolved sample
\* is 0; resolving such a sample leaves palette, next_id and id_to_color as
\* they were; identifier 0 maps to "#00000000".
C3_TransparentIsZero == [](C3_State) /\ [][C3_Step]_vars

\* a block of several pixels, one of them with alpha above 0, averaged to
\* alpha 0 under a positive tolerance, next to a non-transparent cell
C3_Witness ==
    /\ Scanning /\ block_size > 1 /\ tolerance > 0
    /\ \E j \in 1..Len(AllRows) : \E i \in 1..Len(AllRows[j]) :
          /\ AllRows[j][i] = 0
          /\ \E c \in ClampedBlock(i, j) : img[c][4] > 0
    /\ \E id \in CellIds(AllRows) : id # 0

(***************************************************************************)
(* C4                                                                      *)
(***************************************************************************)
\* C4: the matrix has ceil(H/B) rows of ceil(W/B) entries, and the entry of
\* cell (i, j) is computed from exactly the pixels of its clamped block, of
\* which there is at least one and all of which are inside the image.
C4_GridShape ==
    /\ Scanning =>
          \A j \in 1..Len(AllRows) : \A i \in 1..Len(AllRows[j]) :
              /\ reads[j][i] = ClampedBlock(i, j)
              /\ reads[j][i] # {}
              /\ reads[j][i] \subseteq Coords(width, height)
    /\ ScanOver =>
          /\ Len(matrix) = CeilDiv(height, block_size)
          /\ \A j \in 1..Len(matrix) : Len(matrix[j]) = CeilDiv(width, block_size)

\* a finished scan whose right edge block is narrower than the block size
C4_Witness ==
    /\ ScanOver /\ block_size > 1 /\ width > block_size /\ width % block_size # 0
    /\ Cardinality(reads[1][Len(reads[1])]) < block_size

(***************************************************************************)
(* C5                                                                      *)
(***************************************************************************)
IdsWith(tol) == NumIds(ProcessImage(img, width, height, block_size, tol).matrix)

\* C5 as claimed: for tolerances t1 <= t2 the scan with t2 assigns no more
\* distinct identifiers than the scan with t1.
C5_Monotone ==
    (cmd = "pixelate" /\ pc = "scanned") =>
        \A t1 \in Tolerances : t1 <= tolerance => NumIds(matrix) <= IdsWith(t1)

\* C5 amended: for every tolerance the scan assigns no more distinct
\* identifiers than the scan of the same image with tolerance 0.
C5_NoMoreThanExact ==
    (cmd = "pixelate" /\ pc = "scanned") => NumIds(matrix) <= IdsWith(0)

\* a scan whose positive tolerance merged colours
C5_Witness ==
    /\ cmd = "pixelate" /\ pc = "scanned" /\ tolerance > 0
    /\ NumIds(matrix) < IdsWith(0)
    /\ 0 \in CellIds(matrix)

(***************************************************************************)
(* C6                                                                      *)
(***************************************************************************)
ExampleImage ==
    [c \in Coords(2, 2) |-> IF c[2] = 0 THEN <<255, 0, 0, 255>> ELSE <<0, 255, 0, 255>>]
MapExampleWritten ==
    /\ cmd = "pixelate" /\ pc = "written"
    /\ width = 2 /\ height = 2 /\ img = ExampleImage
    /\ block_size = 1 /\ tolerance = 0

\* C6 as claimed: the example gives matrix [[1,1],[2,2]] and the colors
\* table {"1": "#ff0000", "2": "#00ff00"} and nothing else.
C6_MapExampleRgb ==
    MapExampleWritten =>
        /\ json.matrix = <<<<1, 1>>, <<2, 2>>>>
        /\ json.colors = (<<"1">> :> <<"#", "f", "f", "0", "0", "0", "0">>
                          @@ <<"2">> :> <<"#", "0", "0", "f", "f", "0", "0">>)

\* C6 amended: the example gives matrix [[1,1],[2,2]] and the colors table
\* {"0": "#00000000", "1": "#ff0000ff", "2": "#00ff00ff"}.
C6_MapExampleRgba ==
    MapExampleWritten =>
        /\ json.matrix = <<<<1, 1>>, <<2, 2>>>>
        /\ json.colors = (<<"0">> :> <<"#", "0", "0", "0", "0", "0", "0", "0", "0">>
                          @@ <<"1">> :> <<"#", "f", "f", "0", "0", "0", "0", "f", "f">>
                          @@ <<"2">> :> <<"#", "0", "0", "f", "f", "0", "0", "f", "f">>)

C6_Witness == MapExampleWritten /\ DOMAIN json = {"matrix", "colors"}

(***************************************************************************)
(* C7, C8, C10                                                             *)
(***************************************************************************)
\* reconstruct_image got past the parse and the empty-matrix check
Started == pc \in {"cells", "save", "done", "failed"}
           /\ result \notin {"open_error", "parse_error", "empty_matrix"}
CellsOf(m) == UNION {{<<j, i>> : i \in 1..Len(m[j])} : j \in 1..Len(m)}
\* cell p comes before the cell the loop is at
Processed(p) == p[1] < cy \/ (p[1] = cy /\ p[2] < cx)
AllPresentDecode ==
    \A p \in CellsOf(data.matrix) :
        data.matrix[p[1]][p[2]] \in DOMAIN data.colors
            => hex_to_rgba(data.colors[data.matrix[p[1]][p[2]]]) # HexErr
Ragged(m) == \E j \in 1..Len(m) : Len(m[j]) # Len(m[1])

\* C7: when reconstruct_image fails before the save (unreadable or malformed
\* document, empty matrix, undecodable colour, out-of-bounds write) no output
\* file exists; a file exists only once every cell has been processed.
C7_NoPartialOutput ==
    /\ result \in {"open_error", "parse_error", "empty_matrix", "hex_error", "bounds_panic"}
          => out_file = Absent
    /\ out_file # Absent =>
          /\ result \in {"ok", "save_error"}
          /\ \A p \in CellsOf(data.matrix) : Processed(p)

\* a colour fails to decode after an earlier cell was written
C7_Witness ==
    /\ result = "hex_error"
    /\ \E p \in CellsOf(data.matrix) : Processed(p)
    /\ \E c \in DOMAIN out_img : out_img[c] # <<0, 0, 0, 0>>

\* C8: when every referenced colour that is present decodes, each cell whose
\* identifier is missing is warned about and written as (0, 0, 0, 0), and the
\* run goes on to the save and succeeds (unless the save itself fails).
C8_MissingIdNonFatal ==
    (Started /\ AllPresentDecode) =>
        /\ result \in {"running", "ok", "save_error"}
        /\ \A p \in CellsOf(data.matrix) :
              (Processed(p) /\ data.matrix[p[1]][p[2]] \notin DOMAIN data.colors) =>
                  /\ out_img[<<p[2] - 1, p[1] - 1>>] = <<0, 0, 0, 0>>
                  /\ \E n \in 1..Len(warnings) : warnings[n] = data.matrix[p[1]][p[2]]

\* C10: a matrix whose rows differ in length never makes the reconstruction
\* fail on a pixel write: every write is inside width x height.
C10_RaggedNeverFails ==
    (Started /\ Ragged(data.matrix)) => result # "bounds_panic"

(***************************************************************************)
(* C9                                                                      *)
(***************************************************************************)
FirstPos(k) ==
    CHOOSE n \in 1..Len(Flatten(AllRows)) :
        /\ Flatten(AllRows)[n] = k
        /\ \A q \in 1..(n - 1) : Flatten(AllRows)[q] # k

C9_State ==
    Scanning =>
        /\ next_id >= 1
        /\ AllRows = <<>> => next_id = 1
        /\ DOMAIN id_to_color = 0..(next_id - 1)
        /\ \A k1, k2 \in DOMAIN id_to_color :
              id_to_color[k1] = id_to_color[k2] => k1 = k2
        /\ \A k \in 1..(next_id - 1) : k \in CellIds(AllRows)
        /\ \A k \in 1..(next_id - 2) : FirstPos(k) < FirstPos(k + 1)

C9_Step ==
    \A k \in DOMAIN id_to_color :
        k \in DOMAIN id_to_color' /\ id_to_color'[k] = id_to_color[k]

\* C9: the keys of id_to_color are 0..next_id-1 with next_id starting at 1,
\* an entry is never overwritten, no two identifiers share a hex string, and
\* the first occurrence of identifier k+1 comes after that of k (k >= 1).
C9_IdentifierAssignment == [](C9_State) /\ [][C9_Step]_vars

\* three identifiers assigned, a fuzzy hit recorded
C9_Witness ==
    /\ Scanning /\ tolerance > 0 /\ next_id >= 3 /\ FuzzyHit
    /\ Len(Flatten(AllRows)) > next_id

====
